---- MODULE Spec2Model ----
(***************************************************************************)
(* Order fulfilment ledger of the cafe storefront (src/app.py): cart,      *)
(* checkout, order status transitions, payment verification, no-show       *)
(* marking, loyalty accrual and automatic blacklisting, over one shared    *)
(* SQLite database.                                                        *)
(*                                                                         *)
(* Database semantics (sqlite3 module, default isolation level, WAL):      *)
(*  - a SELECT issued before the first INSERT/UPDATE of a request runs in  *)
(*    autocommit mode and sees the state committed at that moment;         *)
(*  - the first INSERT/UPDATE opens a write transaction, which holds the   *)
(*    single database write lock until commit() or close(); the reads in   *)
(*    it see the latest committed state; other connections see none of its *)
(*    writes before the commit.  A write transaction is therefore one      *)
(*    atomic step, and the reads before it are separate, earlier steps;    *)
(*  - close() without commit() discards the pending writes.                *)
(*                                                                         *)
(* Money is counted in centavos (1 peso = 100), stock in tenths of a unit, *)
(* so every amount the handlers compute on the modelled data is integral.  *)
(***************************************************************************)
EXTENDS Integers, Sequences, FiniteSets, TLC

\* ------------------------------------------------------------------ bounds
MaxOrders == 2          \* orders created in one behaviour
MaxQty == 2             \* largest quantity of one cart line
MaxNoShows == 4         \* cap of customers.no_show_count
MaxCancels == 6         \* cap of customers.cancelled_count
MaxNotifications == 1   \* notifications rows stored; later ones fail to store
LifecycleOrders == 1    \* orders created in one behaviour of SpecLifecycle
RetryOrders == 1        \* orders created in one behaviour of SpecRetry
RetryNotifications == 2 \* notifications rows stored in SpecRetry
LifecycleCancels == 1   \* cap of cancelled_count in SpecLifecycle

\* ------------------------------------------------------- program constants
NoShowLimit == 3
CancelLimit == 5

valid_statuses == {"pending", "confirmed", "preparing", "ready", "completed", "cancelled"}

Sessions == {"s1", "s2"}
Admins == {"a1", "a2"}
Customers == {1}

\* ------------------------------------------------------------------ state
VARIABLES db,        \* the committed contents of the database tables
          session,   \* per browser session: customer, cart, promo, last flash
          req,       \* per session: the checkout request in flight
          adm        \* per admin worker: the status update request in flight

vars == <<db, session, req, adm>>

\* ---------------------------------------------------------------- helpers
Min(a, b) == IF a < b THEN a ELSE b

RECURSIVE SumSeq(_)
SumSeq(s) == IF s = <<>> THEN 0 ELSE Head(s) + SumSeq(Tail(s))

NoCard == [id |-> 0, customer_id |-> 0, amount |-> 0, balance |-> 0, is_active |-> 0]

NoForm == [pickup_time |-> FALSE, payment_method |-> "", payment_proof |-> FALSE,
           use_gift_card |-> FALSE, gift_card_id |-> 0]

NoOrder == [customer_id |-> 0, total_amount |-> 0, status |-> "",
            payment_method |-> "", payment_verified |-> 0]

IdleReq == [pc |-> "idle", cart_items |-> <<>>, total |-> 0, form |-> NoForm, gift_card |-> NoCard]

IdleAdm == [pc |-> "idle", order_id |-> 0, new_status |-> "", current_order |-> NoOrder]

\* ------------------------------------------------------------------- Init
InitDb ==
  [ menu_items |-> [i \in {1} |-> [price |-> 200, is_available |-> 1]],
    menu_item_ingredients |-> << [menu_item_id |-> 1, ingredient_id |-> 1, quantity_required |-> 2] >>,
    ingredients |-> [i \in {1} |-> [current_stock |-> 2]],
    inventory_transactions |-> <<>>,
    promotions |-> << [code |-> "SAVE50", discount_type |-> "percentage", discount_value |-> 50,
                       min_order_amount |-> 300, max_uses |-> 1, used_count |-> 0, is_active |-> 1] >>,
    gift_cards |-> [g \in {1} |-> [id |-> 1, customer_id |-> 1, amount |-> 300, balance |-> 300, is_active |-> 1]],
    gift_card_transactions |-> << [gift_card_id |-> 1, transaction_type |-> "purchase", amount |-> 300] >>,
    customers |-> [c \in Customers |-> [email |-> "ana@example.com", phone |-> "0917",
                                        email_verified |-> 1, no_show_count |-> 0, cancelled_count |-> 0]],
    orders |-> <<>>,
    order_items |-> <<>>,
    loyalty_points |-> <<>>,
    loyalty_transactions |-> <<>>,
    blacklist |-> <<>>,
    notifications |-> <<>> ]

InitSession == [customer_id |-> 1, cart |-> <<>>, promo_code |-> "",
                promo_discount_type |-> "", promo_discount_value |-> 0, flash |-> ""]

Init ==
  /\ db = InitDb
  /\ session = [s \in Sessions |-> InitSession]
  /\ req = [s \in Sessions |-> IdleReq]
  /\ adm = [a \in Admins |-> IdleAdm]


\* -------------------------------------------------------------- blacklist
\* check_blacklist: an active row matching the customer id, or the email, or
\* the phone; an identifier that is None/0/'' adds no condition.
check_blacklistAnyRow(blacklist, customer_id, email, phone) ==
  \E k \in 1..Len(blacklist) :
     \/ customer_id # 0 /\ blacklist[k].customer_id = customer_id
     \/ email # "" /\ blacklist[k].email = email
     \/ phone # "" /\ blacklist[k].phone = phone

check_blacklist(blacklist, customer_id, email, phone) ==
  \E k \in 1..Len(blacklist) :
     /\ blacklist[k].is_active = 1
     /\ \/ customer_id # 0 /\ blacklist[k].customer_id = customer_id
        \/ email # "" /\ blacklist[k].email = email
        \/ phone # "" /\ blacklist[k].phone = phone

is_email_verified(d, customer_id) == d.customers[customer_id].email_verified = 1

\* ------------------------------------------------------------------- cart
CartIndex(cart, item_id) == {k \in 1..Len(cart) : cart[k].id = item_id}

Flash(s, msg) == [session EXCEPT ![s].flash = msg]

\* /cart/add/<item_id>: item lookup, sold-out check, merge into the cart.
add_to_cart(s, item_id, quantity) ==
  /\ req[s].pc = "idle"
  /\ UNCHANGED <<db, req, adm>>
  /\ IF item_id \notin DOMAIN db.menu_items
       THEN session' = Flash(s, "Item not found.")
     ELSE IF db.menu_items[item_id].is_available = 0
       THEN session' = Flash(s, "sold out")
     ELSE LET cart == session[s].cart
              ks == CartIndex(cart, item_id)
              k == CHOOSE j \in ks : \A m \in ks : j <= m
              new_cart == IF ks # {}
                            THEN [cart EXCEPT ![k].quantity = @ + quantity]
                            ELSE Append(cart, [id |-> item_id, quantity |-> quantity])
          IN session' = [session EXCEPT ![s].cart = new_cart, ![s].flash = "added to cart"]

\* /cart/clear
clear_cart(s) ==
  /\ req[s].pc = "idle"
  /\ session' = [session EXCEPT ![s].cart = <<>>, ![s].flash = "Cart cleared."]
  /\ UNCHANGED <<db, req, adm>>

\* /cart/update/<item_id>: a quantity of 0 or less drops the line, any other
\* replaces the quantity of the first line of that item.
update_cart(s, item_id, quantity) ==
  /\ req[s].pc = "idle"
  /\ UNCHANGED <<db, req, adm>>
  /\ LET cart == session[s].cart
         ks == CartIndex(cart, item_id)
         k == CHOOSE j \in ks : \A m \in ks : j <= m
         new_cart == IF quantity <= 0
                       THEN SelectSeq(cart, LAMBDA it : it.id # item_id)
                     ELSE IF ks # {} THEN [cart EXCEPT ![k].quantity = quantity]
                     ELSE cart
     IN session' = [session EXCEPT ![s].cart = new_cart, ![s].flash = "Cart updated."]

\* /cart/remove/<item_id>
remove_from_cart(s, item_id) ==
  /\ req[s].pc = "idle"
  /\ session' = [session EXCEPT ![s].cart = SelectSeq(@, LAMBDA it : it.id # item_id),
                                ![s].flash = "Item removed from cart."]
  /\ UNCHANGED <<db, req, adm>>

\* /apply-promo: validates the code against the promotions table and the
\* current cart, then stores code, type and value in the session.
PromoRows(promotions, code) == {k \in 1..Len(promotions) : promotions[k].code = code}

CartTotal(d, cart) ==
  SumSeq([k \in 1..Len(cart) |->
            IF cart[k].id \in DOMAIN d.menu_items
              THEN d.menu_items[cart[k].id].price * cart[k].quantity ELSE 0])

apply_promo(s, code) ==
  /\ req[s].pc = "idle"
  /\ UNCHANGED <<db, req, adm>>
  /\ LET ks == {k \in PromoRows(db.promotions, code) : db.promotions[k].is_active = 1}
     IN IF code = "" THEN session' = Flash(s, "Please enter a promo code.")
        ELSE IF ks = {} THEN session' = Flash(s, "Invalid or expired promo code.")
        ELSE LET promo == db.promotions[CHOOSE k \in ks : TRUE]
                 cart_total == CartTotal(db, session[s].cart)
             IN IF promo.max_uses # 0 /\ promo.used_count >= promo.max_uses
                  THEN session' = Flash(s, "usage limit")
                ELSE IF promo.min_order_amount # 0 /\ cart_total < promo.min_order_amount
                  THEN session' = Flash(s, "minimum order")
                ELSE session' = [session EXCEPT ![s].promo_code = code,
                                                ![s].promo_discount_type = promo.discount_type,
                                                ![s].promo_discount_value = promo.discount_value,
                                                ![s].flash = "promo applied"]

\* /admin/promotions/toggle/<promo_id>
admin_toggle_promotion(promo_id) ==
  /\ UNCHANGED <<session, req, adm>>
  /\ IF promo_id \in 1..Len(db.promotions)
       THEN db' = [db EXCEPT !.promotions[promo_id].is_active = IF @ # 0 THEN 0 ELSE 1]
       ELSE UNCHANGED db


\* --------------------------------------------------------------- checkout
\* The cart joined with menu_items: one entry per cart line whose menu item
\* exists, carrying the catalog price read at that moment.
LoadCartItems(d, cart) ==
  LET present == SelectSeq(cart, LAMBDA it : it.id \in DOMAIN d.menu_items)
  IN [k \in 1..Len(present) |->
        [id |-> present[k].id, quantity |-> present[k].quantity,
         price |-> d.menu_items[present[k].id].price]]

Subtotal(cart_items) ==
  SumSeq([k \in 1..Len(cart_items) |-> cart_items[k].price * cart_items[k].quantity])

\* First part of a POST to /checkout: the reads made before the form is looked at.
CheckoutBegin(s) ==
  /\ req[s].pc = "idle"
  /\ UNCHANGED <<db, adm>>
  /\ LET cid == session[s].customer_id
         customer == db.customers[cid]
     IN IF session[s].cart = <<>>
          THEN /\ session' = Flash(s, "Your cart is empty.")
               /\ UNCHANGED req
        ELSE IF check_blacklist(db.blacklist, cid, customer.email, customer.phone)
          THEN /\ session' = Flash(s, "Your account has been restricted.")
               /\ UNCHANGED req
        ELSE IF ~ is_email_verified(db, cid)
          THEN /\ session' = Flash(s, "Please verify your email address.")
               /\ UNCHANGED req
        ELSE LET cart_items == LoadCartItems(db, session[s].cart)
             IN /\ req' = [req EXCEPT ![s] = [IdleReq EXCEPT !.pc = "loaded",
                                                             !.cart_items = cart_items,
                                                             !.total = Subtotal(cart_items)]]
                /\ UNCHANGED session

\* SELECT * FROM gift_cards WHERE id = ? AND customer_id = ? AND is_active = 1
SelectGiftCard(d, gift_card_id, customer_id) ==
  IF /\ gift_card_id \in DOMAIN d.gift_cards
     /\ d.gift_cards[gift_card_id].customer_id = customer_id
     /\ d.gift_cards[gift_card_id].is_active = 1
    THEN d.gift_cards[gift_card_id] ELSE NoCard

\* str.endswith('Cash') on the payment method names the form offers
EndsWithCash(payment_method) ==
  payment_method \in {"Cash", "GCash", "Gift Card + Cash", "Gift Card + GCash"}

\* f'Gift Card + {payment_method}'
GiftCardPlus(payment_method) ==
  CASE payment_method = "Cash"  -> "Gift Card + Cash"
    [] payment_method = "GCash" -> "Gift Card + GCash"
    [] payment_method = "Card"  -> "Gift Card + Card"
    [] OTHER                    -> "Gift Card + "

\* discount from the promo stored in the session, clamped to the total
DiscountAmount(sess, total) ==
  IF sess.promo_code = "" THEN 0
  ELSE Min(IF sess.promo_discount_type = "percentage"
             THEN (total * sess.promo_discount_value) \div 100
             ELSE sess.promo_discount_value,
           total)

\* UPDATE promotions SET used_count = used_count + 1 WHERE code = ?
IncrementPromoUsage(d, code) ==
  [d EXCEPT !.promotions =
     [k \in 1..Len(d.promotions) |->
        IF d.promotions[k].code = code
          THEN [d.promotions[k] EXCEPT !.used_count = @ + 1]
          ELSE d.promotions[k]]]

\* UPDATE gift_cards SET balance = new_balance; INSERT the 'redeemed' row.
\* new_balance is computed from the gift card row as the request read it.
RedeemGiftCard(d, gift_card, gift_card_amount) ==
  [d EXCEPT !.gift_cards[gift_card.id].balance = gift_card.balance - gift_card_amount,
            !.gift_card_transactions =
               Append(@, [gift_card_id |-> gift_card.id, transaction_type |-> "redeemed",
                          amount |-> gift_card_amount])]

\* the recipe rows of one cart line, as (ingredient, quantity needed)
RequiredIngredients(d, cart_item) ==
  LET rows == SelectSeq(d.menu_item_ingredients, LAMBDA r : r.menu_item_id = cart_item.id)
  IN [k \in 1..Len(rows) |->
        [ingredient_id |-> rows[k].ingredient_id,
         quantity_needed |-> rows[k].quantity_required * cart_item.quantity]]

\* UPDATE ingredients SET current_stock = current_stock - ?; INSERT usage row
RECURSIVE DeductIngredients(_, _, _)
DeductIngredients(d, order_id, needs) ==
  IF needs = <<>> THEN d
  ELSE LET n == Head(needs)
           d1 == [d EXCEPT !.ingredients[n.ingredient_id].current_stock = @ - n.quantity_needed,
                           !.inventory_transactions =
                              Append(@, [ingredient_id |-> n.ingredient_id, transaction_type |-> "usage",
                                         quantity |-> n.quantity_needed, order_id |-> order_id])]
       IN DeductIngredients(d1, order_id, Tail(needs))

\* INSERT INTO orders, then per cart line INSERT INTO order_items and the
\* inventory deduction of its recipe.
RECURSIVE InsertOrderItems(_, _, _)
InsertOrderItems(d, order_id, cart_items) ==
  IF cart_items = <<>> THEN d
  ELSE LET ci == Head(cart_items)
           d1 == [d EXCEPT !.order_items =
                     Append(@, [order_id |-> order_id, menu_item_id |-> ci.id,
                                quantity |-> ci.quantity, price |-> ci.price])]
           d2 == DeductIngredients(d1, order_id, RequiredIngredients(d1, ci))
       IN InsertOrderItems(d2, order_id, Tail(cart_items))

InsertOrder(d, order, cart_items) ==
  LET d1 == [d EXCEPT !.orders = Append(@, order)]
  IN InsertOrderItems(d1, Len(d1.orders), cart_items)

\* send_order_notification: one notifications row, committed on its own;
\* any failure is caught inside and leaves the table as it was.
send_order_notification(d, customer_id, order_id, status, delivered) ==
  IF delivered /\ customer_id \in DOMAIN d.customers /\ order_id \in 1..Len(d.orders)
       /\ status \in valid_statuses
    THEN [d EXCEPT !.notifications =
            Append(@, [customer_id |-> customer_id, order_id |-> order_id, status |-> status])]
    ELSE d

\* conn.commit() comes first and the notification after it, so a notification
\* that fails leaves the committed transaction in place
NotifyInsideTransaction(before, committed, customer_id, order_id, status, delivered) ==
  IF delivered
    THEN send_order_notification(committed, customer_id, order_id, status, delivered)
    ELSE before

NotifyAfterCommit(before, committed, customer_id, order_id, status, delivered) ==
  send_order_notification(committed, customer_id, order_id, status, delivered)

\* conn.close() with writes pending and no commit(): the writes are discarded
CloseWithoutCommitKeepsWrites(committed, pending) == pending

CloseWithoutCommit(committed, pending) == committed

\* the checks made once the gift card has been taken off the amount due
PaymentMissing(final_total, form) == final_total > 0 /\ form.payment_method = ""

ProofMissingForCardOnly(final_total, form) ==
  final_total > 0 /\ form.payment_method = "Card" /\ ~ form.payment_proof

ProofMissing(final_total, form) ==
  final_total > 0 /\ form.payment_method # "Cash" /\ ~ form.payment_proof

\* The POST part of checkout from the promo handling to the end, run on the
\* database d with the gift card row the request selected.  Yields the
\* database the request leaves behind and what it told the customer.
CheckoutTx(d, sess, cart_items, total, form, gift_card, delivered) ==
  LET promo_code == sess.promo_code
      discount_amount == DiscountAmount(sess, total)
      d1 == IF promo_code # "" THEN IncrementPromoUsage(d, promo_code) ELSE d
      after_discount == total - discount_amount
      use_card == form.use_gift_card /\ form.gift_card_id # 0 /\ gift_card.id # 0
      gift_card_amount == IF use_card THEN Min(gift_card.balance, after_discount) ELSE 0
      final_total == after_discount - gift_card_amount
      d2 == IF use_card THEN RedeemGiftCard(d1, gift_card, gift_card_amount) ELSE d1
      fully_gift == final_total = 0 /\ gift_card_amount > 0
      payment_method == IF fully_gift THEN "Gift Card"
                        ELSE IF gift_card_amount > 0 /\ final_total > 0
                          THEN GiftCardPlus(form.payment_method)
                        ELSE form.payment_method
      payment_verified == IF fully_gift THEN 1
                          ELSE IF gift_card_amount > 0 /\ final_total > 0
                            THEN (IF EndsWithCash(payment_method) THEN 1 ELSE 0)
                          ELSE (IF payment_method = "Cash" THEN 1 ELSE 0)
      order == [customer_id |-> sess.customer_id, total_amount |-> total - discount_amount,
                discount_amount |-> discount_amount, promo_code |-> promo_code,
                payment_method |-> payment_method,
                payment_proof |-> IF fully_gift THEN FALSE ELSE form.payment_proof,
                payment_verified |-> payment_verified, status |-> "pending"]
      d3 == InsertOrder(d2, order, cart_items)
      d4 == NotifyAfterCommit(d, d3, sess.customer_id, Len(d3.orders), "pending", delivered)
  IN IF PaymentMissing(final_total, form)
       THEN [db |-> CloseWithoutCommit(d, d2), placed |-> FALSE,
             flash |-> "Gift card balance is insufficient."]
     ELSE IF ProofMissing(final_total, form)
       THEN [db |-> CloseWithoutCommit(d, d2), placed |-> FALSE,
             flash |-> "Please provide proof of payment."]
     ELSE [db |-> d4, placed |-> TRUE, flash |-> "Order placed successfully!"]

\* effect of the rest of the request on the session and the request record
FinishCheckout(s, tx) ==
  /\ db' = tx.db
  /\ req' = [req EXCEPT ![s] = IdleReq]
  /\ session' = IF tx.placed
                  THEN [session EXCEPT ![s].cart = <<>>, ![s].promo_code = "",
                                       ![s].promo_discount_type = "",
                                       ![s].promo_discount_value = 0,
                                       ![s].flash = tx.flash]
                  ELSE Flash(s, tx.flash)
  /\ UNCHANGED adm

\* The form validation and, where the request has written or has nothing
\* more to read before it writes, the whole order transaction.
CheckoutSubmit(s, form, delivered) ==
  /\ req[s].pc = "loaded"
  /\ LET sess == session[s]
         reject(msg) == /\ session' = Flash(s, msg)
                        /\ req' = [req EXCEPT ![s] = IdleReq]
                        /\ UNCHANGED <<db, adm>>
         selects == form.use_gift_card /\ form.gift_card_id # 0
         gift_card == IF selects THEN SelectGiftCard(db, form.gift_card_id, sess.customer_id)
                      ELSE NoCard
     IN IF ~ form.pickup_time
          THEN reject("Please select a pickup time.")
        ELSE IF form.payment_method = "" /\ ~ form.use_gift_card
          THEN reject("Please select a payment method.")
        ELSE IF form.payment_method # "" /\ form.payment_method # "Cash"
                /\ ~ form.payment_proof /\ ~ form.use_gift_card
          THEN reject("Please provide proof of payment.")
        ELSE IF sess.promo_code = "" /\ gift_card.id # 0
          \* the gift card row is read in autocommit mode; the transaction
          \* opens at the UPDATE that follows
          THEN /\ req' = [req EXCEPT ![s].pc = "gift_read", ![s].form = form,
                                     ![s].gift_card = gift_card]
               /\ UNCHANGED <<db, session, adm>>
        ELSE FinishCheckout(s, CheckoutTx(db, sess, req[s].cart_items, req[s].total,
                                          form, gift_card, delivered))

\* The order transaction of a request that read its gift card before it.
CheckoutCommit(s, delivered) ==
  /\ req[s].pc = "gift_read"
  /\ FinishCheckout(s, CheckoutTx(db, session[s], req[s].cart_items, req[s].total,
                                  req[s].form, req[s].gift_card, delivered))


\* ------------------------------------------------------ menu administration
\* UPDATE menu_items SET ..., price = ? WHERE id = ?
UpdateMenuItemAndOrderItems(d, item_id, price) ==
  [d EXCEPT !.menu_items[item_id].price = price,
            !.order_items = [k \in 1..Len(d.order_items) |->
                               IF d.order_items[k].menu_item_id = item_id
                                 THEN [d.order_items[k] EXCEPT !.price = price]
                                 ELSE d.order_items[k]]]

UpdateMenuItem(d, item_id, price) == [d EXCEPT !.menu_items[item_id].price = price]

\* DELETE FROM menu_item_ingredients WHERE menu_item_id = ?, then one INSERT
\* per posted ingredient whose quantity is above 0
ReplaceRecipe(d, item_id, links) ==
  LET kept == SelectSeq(d.menu_item_ingredients, LAMBDA r : r.menu_item_id # item_id)
      posted == SelectSeq(links, LAMBDA l : l.quantity_required > 0)
  IN [d EXCEPT !.menu_item_ingredients =
        kept \o [k \in 1..Len(posted) |->
                   [menu_item_id |-> item_id, ingredient_id |-> posted[k].ingredient_id,
                    quantity_required |-> posted[k].quantity_required]]]

\* POST /admin/edit/<item_id> with name, price and category filled in
admin_edit(item_id, price, links) ==
  /\ UNCHANGED <<session, req, adm>>
  /\ LET d1 == IF item_id \in DOMAIN db.menu_items
                 THEN UpdateMenuItem(db, item_id, price) ELSE db
     IN db' = ReplaceRecipe(d1, item_id, links)

\* /admin/toggle-availability/<item_id>
admin_toggle_availability(item_id) ==
  /\ UNCHANGED <<session, req, adm>>
  /\ IF item_id \in DOMAIN db.menu_items
       THEN db' = [db EXCEPT !.menu_items[item_id].is_available = IF @ # 0 THEN 0 ELSE 1]
       ELSE UNCHANGED db

\* GET /menu without search or category filter: the ids of the items listed
menu(d) == DOMAIN d.menu_items

\* ------------------------------------------------------ order administration
\* /admin/orders/<id>/verify-payment
admin_verify_payment(order_id) ==
  /\ order_id \in 1..Len(db.orders)
  /\ db' = [db EXCEPT !.orders[order_id].payment_verified = 1]
  /\ UNCHANGED <<session, req, adm>>

\* SELECT * FROM blacklist WHERE customer_id = ? (active or not)
BlacklistRowExists(blacklist, customer_id) ==
  \E k \in 1..Len(blacklist) : blacklist[k].customer_id = customer_id

InsertBlacklist(d, customer_id) ==
  [d EXCEPT !.blacklist =
     Append(@, [customer_id |-> customer_id, email |-> d.customers[customer_id].email,
                phone |-> d.customers[customer_id].phone, is_active |-> 1])]

\* /admin/orders/<id>/mark-no-show
admin_mark_no_show(order_id) ==
  /\ order_id \in 1..Len(db.orders)
  /\ LET cid == db.orders[order_id].customer_id
         d1 == [db EXCEPT !.customers[cid].no_show_count = @ + 1]
         d2 == IF d1.customers[cid].no_show_count >= NoShowLimit
                  /\ ~ BlacklistRowExists(d1.blacklist, cid)
                 THEN InsertBlacklist(d1, cid) ELSE d1
     IN db' = [d2 EXCEPT !.orders[order_id].status = "cancelled"]
  /\ UNCHANGED <<session, req, adm>>

\* /admin/blacklist/remove/<id>
admin_remove_blacklist(blacklist_id) ==
  /\ blacklist_id \in 1..Len(db.blacklist)
  /\ db' = [db EXCEPT !.blacklist[blacklist_id].is_active = 0]
  /\ UNCHANGED <<session, req, adm>>

\* the payment guard of admin_update_order_status
PaymentGuardOnConfirmOnly(current_order, new_status) ==
  /\ new_status = "confirmed"
  /\ current_order.payment_method # ""
  /\ current_order.payment_method # "Cash"
  /\ current_order.payment_verified = 0

PaymentGuardRefuses(current_order, new_status) ==
  /\ new_status \in {"confirmed", "preparing", "ready"}
  /\ current_order.payment_method # ""
  /\ current_order.payment_method # "Cash"
  /\ current_order.payment_verified = 0

\* /admin/orders/<id>/status, up to the first write: status validation, the
\* read of the order and the payment guard.
StatusRead(a, order_id, new_status) ==
  /\ adm[a].pc = "idle"
  /\ UNCHANGED <<db, session, req>>
  /\ IF new_status \notin valid_statuses THEN UNCHANGED adm
     ELSE IF order_id \notin 1..Len(db.orders) THEN UNCHANGED adm
     ELSE LET o == db.orders[order_id]
              current_order == [customer_id |-> o.customer_id, total_amount |-> o.total_amount,
                                status |-> o.status, payment_method |-> o.payment_method,
                                payment_verified |-> o.payment_verified]
          IN IF PaymentGuardRefuses(current_order, new_status) THEN UNCHANGED adm
             ELSE adm' = [adm EXCEPT ![a] = [pc |-> "read", order_id |-> order_id,
                                             new_status |-> new_status,
                                             current_order |-> current_order]]

\* SELECT id FROM loyalty_transactions WHERE order_id = ? AND transaction_type = 'earned'
ExistingTransactionWrongType(loyalty_transactions, order_id) ==
  \E k \in 1..Len(loyalty_transactions) :
     /\ loyalty_transactions[k].order_id = order_id
     /\ loyalty_transactions[k].transaction_type = "redeemed"

ExistingTransaction(loyalty_transactions, order_id) ==
  \E k \in 1..Len(loyalty_transactions) :
     /\ loyalty_transactions[k].order_id = order_id
     /\ loyalty_transactions[k].transaction_type = "earned"

\* int(total_amount): the pesos of an amount in centavos, cut off towards 0
PointsEarned(total_amount) ==
  IF total_amount >= 0 THEN total_amount \div 100 ELSE 0 - ((0 - total_amount) \div 100)

LoyaltyRow(loyalty_points, customer_id) ==
  {k \in 1..Len(loyalty_points) : loyalty_points[k].customer_id = customer_id}

\* the loyalty branch: awarded when the order becomes completed, was not
\* read as completed, and has no earned row yet
AwardDueIgnoringLedger(d, current_order, order_id, new_status) ==
  /\ new_status = "completed"
  /\ current_order.status # "completed"

AwardDue(d, current_order, order_id, new_status) ==
  /\ new_status = "completed"
  /\ current_order.status # "completed"
  /\ ~ ExistingTransaction(d.loyalty_transactions, order_id)

AwardPoints(d, customer_id, order_id, points_earned) ==
  LET ks == LoyaltyRow(d.loyalty_points, customer_id)
      lp == IF ks # {}
              THEN [k \in 1..Len(d.loyalty_points) |->
                      IF k \in ks
                        THEN [d.loyalty_points[k] EXCEPT !.points = @ + points_earned,
                                                         !.total_earned = @ + points_earned]
                        ELSE d.loyalty_points[k]]
              ELSE Append(d.loyalty_points,
                          [customer_id |-> customer_id, points |-> points_earned,
                           total_earned |-> points_earned, total_redeemed |-> 0])
  IN [d EXCEPT !.loyalty_points = lp,
               !.loyalty_transactions =
                  Append(@, [customer_id |-> customer_id, points |-> points_earned,
                             transaction_type |-> "earned", order_id |-> order_id])]

\* the cancellation branch: count, and blacklist from the fifth on
TrackCancellationRestocking(d, customer_id) ==
  LET d1 == [d EXCEPT !.customers[customer_id].cancelled_count = @ + 1]
      d2 == IF d1.customers[customer_id].cancelled_count >= CancelLimit
               /\ ~ BlacklistRowExists(d1.blacklist, customer_id)
              THEN InsertBlacklist(d1, customer_id) ELSE d1
      used(i) == SumSeq([k \in 1..Len(d.inventory_transactions) |->
                           IF /\ d.inventory_transactions[k].ingredient_id = i
                              /\ d.orders[d.inventory_transactions[k].order_id].status = "cancelled"
                             THEN d.inventory_transactions[k].quantity ELSE 0])
  IN [d2 EXCEPT !.ingredients =
        [i \in DOMAIN d.ingredients |->
           [d.ingredients[i] EXCEPT !.current_stock = @ + used(i)]]]

TrackCancellation(d, customer_id) ==
  LET d1 == [d EXCEPT !.customers[customer_id].cancelled_count = @ + 1]
  IN IF d1.customers[customer_id].cancelled_count >= CancelLimit
        /\ ~ BlacklistRowExists(d1.blacklist, customer_id)
       THEN InsertBlacklist(d1, customer_id) ELSE d1

\* /admin/orders/<id>/status, the write transaction and the notification
StatusWrite(a, delivered) ==
  /\ adm[a].pc = "read"
  /\ LET order_id == adm[a].order_id
         new_status == adm[a].new_status
         current_order == adm[a].current_order
         d1 == [db EXCEPT !.orders[order_id].status = new_status]
         d2 == IF AwardDue(d1, current_order, order_id, new_status)
                 THEN AwardPoints(d1, current_order.customer_id, order_id,
                                  PointsEarned(current_order.total_amount))
                 ELSE d1
         d3 == IF new_status = "cancelled" /\ current_order.status # "cancelled"
                 THEN TrackCancellation(d2, current_order.customer_id)
                 ELSE d2
         d4 == IF new_status # current_order.status
                 THEN NotifyAfterCommit(db, d3, current_order.customer_id, order_id,
                                        new_status, delivered)
                 ELSE d3
     IN db' = d4
  /\ adm' = [adm EXCEPT ![a] = IdleAdm]
  /\ UNCHANGED <<session, req>>


\* ---------------------------------------------------------- specifications
\* what the checkout form can carry
Form(pickup_time, payment_method, payment_proof, use_gift_card, gift_card_id) ==
  [pickup_time |-> pickup_time, payment_method |-> payment_method, payment_proof |-> payment_proof,
   use_gift_card |-> use_gift_card, gift_card_id |-> gift_card_id]

Forms ==
  { Form(TRUE, "Cash", FALSE, FALSE, 0),    \* cash
    Form(TRUE, "GCash", TRUE, FALSE, 0),    \* e-wallet with proof
    Form(TRUE, "GCash", FALSE, FALSE, 0),   \* e-wallet, proof missing
    Form(FALSE, "Cash", FALSE, FALSE, 0),   \* pickup time missing
    Form(TRUE, "", FALSE, FALSE, 0),        \* nothing selected
    Form(TRUE, "", FALSE, TRUE, 1),         \* gift card only
    Form(TRUE, "Cash", FALSE, TRUE, 1),     \* gift card, rest in cash
    Form(TRUE, "GCash", FALSE, TRUE, 1),    \* gift card, rest by e-wallet, proof missing
    Form(TRUE, "GCash", FALSE, TRUE, 0) }   \* gift card ticked, none chosen, proof missing

CashForm == Form(TRUE, "Cash", FALSE, FALSE, 0)

GCashForm == Form(TRUE, "GCash", TRUE, FALSE, 0)

GiftCardForm == Form(TRUE, "", FALSE, TRUE, 1)

\* the notification is stored or fails to be stored
Delivery == IF Len(db.notifications) < MaxNotifications THEN BOOLEAN ELSE {FALSE}

CartQuantity(s, item_id) ==
  SumSeq([k \in 1..Len(session[s].cart) |->
            IF session[s].cart[k].id = item_id THEN session[s].cart[k].quantity ELSE 0])

\* Customers shopping and checking out concurrently.
AddToCart == \E s \in Sessions, q \in 1..MaxQty :
                /\ CartQuantity(s, 1) + q <= MaxQty
                /\ add_to_cart(s, 1, q)
ApplyPromo == \E s \in Sessions : apply_promo(s, "SAVE50")
BeginCheckout == \E s \in Sessions : Len(db.orders) < MaxOrders /\ CheckoutBegin(s)
SubmitCheckout == \E s \in Sessions, form \in Forms, delivered \in Delivery :
                     CheckoutSubmit(s, form, delivered)
CommitCheckout == \E s \in Sessions, delivered \in Delivery : CheckoutCommit(s, delivered)

Next == AddToCart \/ ApplyPromo \/ BeginCheckout \/ SubmitCheckout \/ CommitCheckout

Spec == Init /\ [][Next]_vars

\* One customer placing orders, one admin worker driving them.
LifecycleAdd == session["s1"].cart = <<>> /\ Len(db.orders) < LifecycleOrders
                /\ add_to_cart("s1", 1, 1)
LifecycleBegin == CheckoutBegin("s1")
LifecycleSubmit == \E form \in {CashForm, GCashForm, GiftCardForm} :
                      CheckoutSubmit("s1", form, FALSE)
LifecycleCommit == CheckoutCommit("s1", FALSE)
VerifyPayment == \E o \in 1..Len(db.orders) : admin_verify_payment(o)
ReadStatus == \E o \in 1..LifecycleOrders, ns \in valid_statuses \cup {"refunded"} :
                 /\ (ns = "cancelled" /\ o <= Len(db.orders)) =>
                       db.customers[db.orders[o].customer_id].cancelled_count < LifecycleCancels
                 /\ StatusRead("a1", o, ns)
WriteStatus == StatusWrite("a1", FALSE)

NextLifecycle ==
  \/ LifecycleAdd \/ LifecycleBegin \/ LifecycleSubmit \/ LifecycleCommit
  \/ VerifyPayment \/ ReadStatus \/ WriteStatus

SpecLifecycle == Init /\ [][NextLifecycle]_vars

\* One customer placing cash orders, two admin workers completing and
\* reopening them concurrently.
RetryAdd == session["s1"].cart = <<>> /\ Len(db.orders) < RetryOrders /\ add_to_cart("s1", 1, 1)
RetryBegin == CheckoutBegin("s1")
RetrySubmit == CheckoutSubmit("s1", CashForm, FALSE)
RetryDelivery == IF Len(db.notifications) < RetryNotifications THEN BOOLEAN ELSE {FALSE}
RetryReadStatus == \E a \in Admins, o \in 1..Len(db.orders), ns \in {"completed", "pending"} :
                      StatusRead(a, o, ns)
RetryWriteStatus == \E a \in Admins, delivered \in RetryDelivery : StatusWrite(a, delivered)

NextRetry == RetryAdd \/ RetryBegin \/ RetrySubmit \/ RetryReadStatus \/ RetryWriteStatus

SpecRetry == Init /\ [][NextRetry]_vars

\* One customer placing cash orders, one admin cancelling, restoring and
\* marking no-shows, and lifting restrictions.
RiskAdd == session["s1"].cart = <<>> /\ Len(db.orders) < MaxOrders /\ add_to_cart("s1", 1, 1)
RiskBegin == CheckoutBegin("s1")
RiskSubmit == CheckoutSubmit("s1", CashForm, FALSE)
RiskReadStatus == \E o \in 1..Len(db.orders), ns \in {"pending", "cancelled"} :
                     /\ ns = "cancelled" =>
                           db.customers[db.orders[o].customer_id].cancelled_count < MaxCancels
                     /\ StatusRead("a1", o, ns)
RiskWriteStatus == StatusWrite("a1", FALSE)
RiskNoShow == \E o \in 1..Len(db.orders) :
                 /\ db.customers[db.orders[o].customer_id].no_show_count < MaxNoShows
                 /\ admin_mark_no_show(o)
RemoveBlacklist == \E b \in 1..Len(db.blacklist) :
                      db.blacklist[b].is_active = 1 /\ admin_remove_blacklist(b)

NextRisk ==
  \/ RiskAdd \/ RiskBegin \/ RiskSubmit \/ RiskReadStatus \/ RiskWriteStatus
  \/ RiskNoShow \/ RemoveBlacklist

SpecRisk == Init /\ [][NextRisk]_vars


\* One customer shopping, applying the promo and checking out, request by request.
SoloAdd == \E q \in 1..MaxQty : CartQuantity("s1", 1) + q <= MaxQty /\ add_to_cart("s1", 1, q)
SoloClear == session["s1"].cart # <<>> /\ clear_cart("s1")
SoloPromo == apply_promo("s1", "SAVE50")
SoloBegin == Len(db.orders) < MaxOrders /\ CheckoutBegin("s1")
SoloSubmit == \E form \in Forms, delivered \in Delivery : CheckoutSubmit("s1", form, delivered)
SoloCommit == \E delivered \in Delivery : CheckoutCommit("s1", delivered)

NextSolo == SoloAdd \/ SoloClear \/ SoloPromo \/ SoloBegin \/ SoloSubmit \/ SoloCommit

SpecSolo == Init /\ [][NextSolo]_vars

\* One customer editing the cart with any quantity the form can post, a
\* manager switching the promotion on and off, and checkouts in between.
CartInputs == (0 - 1)..MaxQty

CartForms == Forms \cup { Form(TRUE, "GCash", TRUE, TRUE, 1) }   \* gift card, rest by e-wallet

CartAdd == \E q \in CartInputs : CartQuantity("s1", 1) + q \in CartInputs /\ add_to_cart("s1", 1, q)
CartUpdate == \E q \in CartInputs : session["s1"].cart # <<>> /\ update_cart("s1", 1, q)
CartRemove == session["s1"].cart # <<>> /\ remove_from_cart("s1", 1)
CartPromo == apply_promo("s1", "SAVE50")
TogglePromotion == admin_toggle_promotion(1)
CartBegin == Len(db.orders) < MaxOrders /\ CheckoutBegin("s1")
CartSubmit == \E form \in CartForms : CheckoutSubmit("s1", form, FALSE)
CartCommit == CheckoutCommit("s1", FALSE)

NextCart ==
  \/ CartAdd \/ CartUpdate \/ CartRemove \/ CartPromo \/ TogglePromotion
  \/ CartBegin \/ CartSubmit \/ CartCommit

SpecCart == Init /\ [][NextCart]_vars

\* One customer ordering in cash while an admin edits the menu item: its
\* price and its recipe.
PriceInputs == {200, 250}

RecipeInputs ==
  { <<>>,
    << [ingredient_id |-> 1, quantity_required |-> 2] >>,
    << [ingredient_id |-> 1, quantity_required |-> 0] >> }

CatalogAdd == \E q \in 1..MaxQty : CartQuantity("s1", 1) + q <= MaxQty /\ add_to_cart("s1", 1, q)
CatalogBegin == Len(db.orders) < MaxOrders /\ CheckoutBegin("s1")
CatalogSubmit == CheckoutSubmit("s1", CashForm, FALSE)
EditItem == \E price \in PriceInputs, links \in RecipeInputs : admin_edit(1, price, links)

NextCatalog == CatalogAdd \/ CatalogBegin \/ CatalogSubmit \/ EditItem

SpecCatalog == Init /\ [][NextCatalog]_vars

\* The blacklist check on any blacklist table two customers can have built
\* up: rows carry the customer's id and the email and phone the customer had
\* when the row was written, and a customer gets at most one row.
Emails == {"ana@example.com", "ben@example.com"}

Phones == {"0917", "0918"}

BlacklistRows ==
  [customer_id : {1, 2}, email : Emails, phone : Phones \cup {""}, is_active : {0, 1}]

BlacklistTables ==
  {<<>>} \cup {<<r>> : r \in BlacklistRows}
         \cup {<<r1, r2>> : r1 \in {r \in BlacklistRows : r.customer_id = 1},
                            r2 \in {r \in BlacklistRows : r.customer_id = 2}}

InitBlacklist ==
  /\ \E bl \in BlacklistTables, phone \in {"0917", ""} :
        db = [InitDb EXCEPT
                !.blacklist = bl,
                !.customers = [c \in {1, 2} |->
                                 [email |-> IF c = 1 THEN "ana@example.com" ELSE "ben@example.com",
                                  phone |-> IF c = 1 THEN phone ELSE "0918",
                                  email_verified |-> 1, no_show_count |-> 0,
                                  cancelled_count |-> 0]]]
  /\ session = [s \in Sessions |-> InitSession]
  /\ req = [s \in Sessions |-> IdleReq]
  /\ adm = [a \in Admins |-> IdleAdm]

BlacklistAdd == session["s1"].cart = <<>> /\ add_to_cart("s1", 1, 1)
BlacklistBegin == Len(db.orders) < MaxOrders /\ CheckoutBegin("s1")
BlacklistSubmit == CheckoutSubmit("s1", CashForm, FALSE)
BlacklistRemove == \E b \in 1..Len(db.blacklist) :
                      db.blacklist[b].is_active = 1 /\ admin_remove_blacklist(b)

NextBlacklist == BlacklistAdd \/ BlacklistBegin \/ BlacklistSubmit \/ BlacklistRemove

SpecBlacklist == InitBlacklist /\ [][NextBlacklist]_vars

\* One customer placing an order paid in cash, by e-wallet or by gift card,
\* and one admin worker verifying the payment, moving the order through every
\* status and marking it as a no-show.
StockAdd == session["s1"].cart = <<>> /\ Len(db.orders) < LifecycleOrders
            /\ add_to_cart("s1", 1, 1)
StockBegin == CheckoutBegin("s1")
StockSubmit == \E form \in {CashForm, GCashForm, GiftCardForm} : CheckoutSubmit("s1", form, FALSE)
StockCommit == CheckoutCommit("s1", FALSE)
StockVerify == \E o \in 1..Len(db.orders) : admin_verify_payment(o)
StockReadStatus == \E o \in 1..Len(db.orders), ns \in valid_statuses :
                      /\ ns = "cancelled" =>
                            db.customers[db.orders[o].customer_id].cancelled_count < LifecycleCancels
                      /\ StatusRead("a1", o, ns)
StockWriteStatus == StatusWrite("a1", FALSE)
StockNoShow == \E o \in 1..Len(db.orders) :
                  /\ db.customers[db.orders[o].customer_id].no_show_count < MaxNoShows
                  /\ admin_mark_no_show(o)

NextStock ==
  \/ StockAdd \/ StockBegin \/ StockSubmit \/ StockCommit
  \/ StockVerify \/ StockReadStatus \/ StockWriteStatus \/ StockNoShow

SpecStock == Init /\ [][NextStock]_vars

\* One customer ordering in cash with any quantity the cart form can post,
\* one admin worker completing and reopening the orders.
PointsAdd == \E q \in CartInputs : CartQuantity("s1", 1) + q \in CartInputs /\ add_to_cart("s1", 1, q)
PointsBegin == Len(db.orders) < MaxOrders /\ CheckoutBegin("s1")
PointsSubmit == CheckoutSubmit("s1", CashForm, FALSE)
PointsReadStatus == \E o \in 1..Len(db.orders), ns \in {"completed", "pending"} :
                       StatusRead("a1", o, ns)
PointsWriteStatus == StatusWrite("a1", FALSE)

NextPoints == PointsAdd \/ PointsBegin \/ PointsSubmit \/ PointsReadStatus \/ PointsWriteStatus

SpecPoints == Init /\ [][NextPoints]_vars

\* One customer ordering in cash while an admin marks the item sold out and
\* available again.
SoldOutAdd == \E q \in 1..MaxQty : CartQuantity("s1", 1) + q <= MaxQty /\ add_to_cart("s1", 1, q)
SoldOutRemove == session["s1"].cart # <<>> /\ remove_from_cart("s1", 1)
SoldOutBegin == Len(db.orders) < MaxOrders /\ CheckoutBegin("s1")
SoldOutSubmit == \E form \in {CashForm, GCashForm} : CheckoutSubmit("s1", form, FALSE)
ToggleAvailability == admin_toggle_availability(1)

NextSoldOut == SoldOutAdd \/ SoldOutRemove \/ SoldOutBegin \/ SoldOutSubmit \/ ToggleAvailability

SpecSoldOut == Init /\ [][NextSoldOut]_vars

\* ------------------------------------------------------------------ claims
OrderIds == 1..Len(db.orders)

OrderCreated == Len(db'.orders) > Len(db.orders)

\* C1: after any interleaving of checkouts no ingredient's stock is below
\* zero (of two orders over the last unit at most one is created).
C1_StockNeverNegative ==
  \A i \in DOMAIN db.ingredients : db.ingredients[i].current_stock >= 0

\* what the order items inserted by this step need of ingredient i
NewOrderNeeds(i) ==
  SumSeq([k \in 1..(Len(db'.order_items) - Len(db.order_items)) |->
            LET item == db'.order_items[Len(db.order_items) + k]
            IN SumSeq([r \in 1..Len(db.menu_item_ingredients) |->
                         IF /\ db.menu_item_ingredients[r].menu_item_id = item.menu_item_id
                            /\ db.menu_item_ingredients[r].ingredient_id = i
                           THEN db.menu_item_ingredients[r].quantity_required * item.quantity
                           ELSE 0])])

\* C2: a checkout whose cart needs more of some ingredient than is in stock
\* is rejected: an order is only ever inserted when, for every ingredient,
\* recipe quantity x ordered quantity over its items is within the stock.
C2_InsufficientStockRejected ==
  [][OrderCreated =>
       \A i \in DOMAIN db.ingredients : NewOrderNeeds(i) <= db.ingredients[i].current_stock]_vars

EarnedRows(d, o) ==
  {k \in 1..Len(d.loyalty_transactions) :
     /\ d.loyalty_transactions[k].order_id = o
     /\ d.loyalty_transactions[k].transaction_type = "earned"}

EarnedCount(o) == Cardinality(EarnedRows(db, o))

PointsBalance(d, c) ==
  SumSeq([k \in 1..Len(d.loyalty_points) |->
            IF d.loyalty_points[k].customer_id = c THEN d.loyalty_points[k].points ELSE 0])

\* the whole pesos of the orders of customer c that have earned points
PointsOwed(c) ==
  SumSeq([o \in OrderIds |->
            IF db.orders[o].customer_id = c /\ EarnedCount(o) >= 1
              THEN db.orders[o].total_amount \div 100 ELSE 0])

\* C3: whatever status updates an order has gone through, it has at most one
\* earned loyalty transaction, exactly one while it is completed, and the
\* customer's points hold the order's points once.
C3_EarnedOncePerOrder ==
  /\ \A o \in OrderIds :
        /\ EarnedCount(o) <= 1
        /\ db.orders[o].status = "completed" => EarnedCount(o) = 1
  /\ \A c \in Customers : PointsBalance(db, c) = PointsOwed(c)

CompletedNotices(o) ==
  {k \in 1..Len(db.notifications) :
     db.notifications[k].order_id = o /\ db.notifications[k].status = "completed"}

\* an order that two completing updates have gone through
C3_Witness ==
  \E o \in OrderIds :
     /\ Cardinality(CompletedNotices(o)) = 2
     /\ db.orders[o].status = "completed"
     /\ EarnedCount(o) = 1
     /\ \A a \in Admins : adm[a].pc = "idle"

\* admin worker a commits its status update in this step
Writes(a) == adm[a].pc = "read" /\ adm'[a].pc = "idle"

\* C4: a completing update that commits leaves exactly one earned
\* transaction for its order; if another update got there first (the earned
\* row exists when this one commits) it adds no row and no points.
C4_ConcurrentCompletionAwardsOnce ==
  [][\A a \in Admins :
       (Writes(a) /\ adm[a].new_status = "completed" /\ adm[a].current_order.status # "completed") =>
          LET o == adm[a].order_id
              c == adm[a].current_order.customer_id
          IN /\ Cardinality(EarnedRows(db', o)) = 1
             /\ IF EarnedRows(db, o) # {}
                  THEN /\ db'.loyalty_transactions = db.loyalty_transactions
                       /\ db'.loyalty_points = db.loyalty_points
                  ELSE PointsBalance(db', c) = PointsBalance(db, c) + adm[a].current_order.total_amount \div 100
    ]_vars

\* one completion has committed while a second request, which read the order
\* as not completed, is about to commit
C4_Witness ==
  \E a \in Admins :
     /\ adm[a].pc = "read"
     /\ adm[a].new_status = "completed"
     /\ adm[a].current_order.status = "pending"
     /\ db.orders[adm[a].order_id].status = "completed"
     /\ EarnedCount(adm[a].order_id) = 1

GuardedStatuses == {"confirmed", "preparing", "ready"}

\* a payment method other than cash whose payment no one has verified
NonCashUnverified(order) ==
  order.payment_method \notin {"", "Cash"} /\ order.payment_verified = 0

\* the status update of order o to ns passes the checks before the write
Accepted(a, o, ns) == StatusRead(a, o, ns) /\ adm'[a].pc = "read"

\* C5: no update to confirmed, preparing or ready takes effect on, or gets
\* past the guard for, a non-cash order with unverified payment; a refused
\* update changes nothing; for a verified, cash or gift-card order the same
\* update is accepted and applied.
C5_PaymentGuard ==
  /\ [](\A a \in Admins :
          (adm[a].pc = "read" /\ adm[a].new_status \in GuardedStatuses) =>
             /\ ~ NonCashUnverified(adm[a].current_order)
             /\ ~ NonCashUnverified(db.orders[adm[a].order_id]))
  /\ [](\A o \in OrderIds, ns \in GuardedStatuses :
          LET order == db.orders[o]
          IN /\ order.payment_method \in {"Cash", "Gift Card"} => order.payment_verified = 1 \/ order.payment_method = "Cash"
             /\ (adm["a1"].pc = "idle" /\ ~ NonCashUnverified(order)) => ENABLED Accepted("a1", o, ns)
             /\ (adm["a1"].pc = "idle" /\ NonCashUnverified(order)) => ~ ENABLED Accepted("a1", o, ns))
  /\ [][\A o \in OrderIds :
          /\ (db'.orders[o].status # db.orders[o].status /\ db'.orders[o].status \in GuardedStatuses)
                => ~ NonCashUnverified(db.orders[o])
          /\ \A a \in Admins : Writes(a) /\ adm[a].order_id = o
                => db'.orders[o].status = adm[a].new_status
     ]_vars

\* an e-wallet order that was verified and then moved on
C5_Witness ==
  \E o \in OrderIds :
     /\ db.orders[o].payment_method = "GCash"
     /\ db.orders[o].payment_verified = 1
     /\ db.orders[o].status \in GuardedStatuses

\* C6: once an order is completed or cancelled, no status update or no-show
\* marking gives it another status.
C6_TerminalStatuses ==
  [][\A o \in OrderIds :
       db.orders[o].status \in {"completed", "cancelled"} =>
          db'.orders[o].status = db.orders[o].status]_vars

isRestricted(d, c) == check_blacklist(d.blacklist, c, d.customers[c].email, d.customers[c].phone)

\* C7: the event that brings a customer's no-show count to 3 or cancellation
\* count to 5 leaves the customer restricted; below both thresholds the
\* customer is not restricted.
C7_RestrictedAtThreshold ==
  /\ [][\A c \in Customers :
          \/ /\ db.customers[c].no_show_count < NoShowLimit
             /\ db'.customers[c].no_show_count = NoShowLimit
          \/ /\ db.customers[c].cancelled_count < CancelLimit
             /\ db'.customers[c].cancelled_count = CancelLimit
          => isRestricted(db', c)]_vars
  /\ [](\A c \in Customers :
          (db.customers[c].no_show_count < NoShowLimit /\ db.customers[c].cancelled_count < CancelLimit)
             => ~ isRestricted(db, c))

\* C8: no order is inserted for a customer who is restricted at that moment.
C8_NoOrderWhileRestricted ==
  [][OrderCreated =>
       ~ isRestricted(db, db'.orders[Len(db'.orders)].customer_id)]_vars

Redeemed(g) ==
  SumSeq([k \in 1..Len(db.gift_card_transactions) |->
            IF /\ db.gift_card_transactions[k].gift_card_id = g
               /\ db.gift_card_transactions[k].transaction_type = "redeemed"
              THEN db.gift_card_transactions[k].amount ELSE 0])

\* C9: checkouts never take more out of a gift card than it held: the
\* redeemed amounts sum to at most the card's amount, and the balance is the
\* amount less that sum.
C9_GiftCardNeverOverdebited ==
  \A g \in DOMAIN db.gift_cards :
     /\ Redeemed(g) <= db.gift_cards[g].amount
     /\ db.gift_cards[g].balance = db.gift_cards[g].amount - Redeemed(g)

\* the checkout request of session s ends in this step without an order
Rejected(s) == req[s].pc # "idle" /\ req'[s].pc = "idle" /\ ~ OrderCreated

\* C10: a checkout request that ends without an order leaves the promo usage
\* counts, gift cards and their transactions, stock, inventory transactions,
\* orders and order items as they were.
C10_RejectedCheckoutChangesNothing ==
  [][\A s \in Sessions :
       Rejected(s) =>
          /\ db'.promotions = db.promotions
          /\ db'.gift_cards = db.gift_cards
          /\ db'.gift_card_transactions = db.gift_card_transactions
          /\ db'.ingredients = db.ingredients
          /\ db'.inventory_transactions = db.inventory_transactions
          /\ db'.orders = db.orders
          /\ db'.order_items = db.order_items]_vars

\* a checkout turned down after the gift card had been applied to it
C10_Witness ==
  \E s \in Sessions :
     /\ session[s].flash = "Gift card balance is insufficient."
     /\ req[s].pc = "idle"
     /\ session[s].cart # <<>>

\* the items of order o and their sum of unit price x quantity
OrderLines(d, o) == SelectSeq(d.order_items, LAMBDA it : it.order_id = o)

OrderSubtotal(d, o) ==
  LET lines == OrderLines(d, o)
  IN SumSeq([k \in 1..Len(lines) |-> lines[k].price * lines[k].quantity])

\* the discount the promotion row of that code gives on a subtotal
PromoDiscount(d, code, subtotal) ==
  IF code = "" THEN 0
  ELSE LET promo == d.promotions[CHOOSE k \in PromoRows(d.promotions, code) : TRUE]
       IN Min(IF promo.discount_type = "percentage"
                THEN (subtotal * promo.discount_value) \div 100
                ELSE promo.discount_value,
              subtotal)

\* C11: every created order stores discount_amount = min(subtotal x value / 100,
\* subtotal) for a percentage promo, min(value, subtotal) for a fixed one and 0
\* without a promo, so that 0 <= discount_amount <= subtotal, and stores
\* total_amount = subtotal - discount_amount, the subtotal being the sum of
\* unit price x quantity over the order's items.
C11_DiscountWithinSubtotal ==
  [][OrderCreated =>
       LET n == Len(db'.orders)
           order == db'.orders[n]
           subtotal == OrderSubtotal(db', n)
       IN /\ order.discount_amount = PromoDiscount(db', order.promo_code, subtotal)
          /\ 0 <= order.discount_amount
          /\ order.discount_amount <= subtotal
          /\ order.total_amount = subtotal - order.discount_amount]_vars

\* the step is a checkout request of session s creating an order with gift
\* card g selected on the form
GiftCheckout(s, g) ==
  /\ OrderCreated
  /\ SelectGiftCard(db, g, session[s].customer_id).id # 0
  /\ \E form \in CartForms, delivered \in BOOLEAN :
        /\ form.use_gift_card /\ form.gift_card_id = g
        /\ \/ CheckoutSubmit(s, form, delivered)
           \/ req[s].form = form /\ CheckoutCommit(s, delivered)

\* C12: for every order created with a gift card selected, the gift
\* contribution is min(card balance before the order, subtotal - discount),
\* the balance after the order is the balance before minus the contribution,
\* and exactly one 'redeemed' gift-card transaction of that amount is appended.
C12_GiftContribution ==
  [][\A s \in Sessions, g \in DOMAIN db.gift_cards :
       GiftCheckout(s, g) =>
         LET order == db'.orders[Len(db'.orders)]
             balance_before == db.gift_cards[g].balance
             contribution == Min(balance_before, order.total_amount)
         IN /\ db'.gift_cards[g].balance = balance_before - contribution
            /\ db'.gift_card_transactions =
                  Append(db.gift_card_transactions,
                         [gift_card_id |-> g, transaction_type |-> "redeemed",
                          amount |-> contribution])]_vars

\* C13: no order is created carrying a promo code that, when the order is
\* created, is missing or inactive or asks for a minimum order amount above
\* the order's subtotal.
C13_PromoValidAtCreation ==
  [][OrderCreated =>
       LET n == Len(db'.orders)
           code == db'.orders[n].promo_code
           ks == PromoRows(db.promotions, code)
       IN code # "" =>
            \E k \in ks : /\ db.promotions[k].is_active = 1
                          /\ db.promotions[k].min_order_amount <= OrderSubtotal(db', n)]_vars

\* the gift contribution of the order created by this step: the amounts of
\* the 'redeemed' rows the step appends
NewRedeemed ==
  LET old == Len(db.gift_card_transactions)
      rows == db'.gift_card_transactions
  IN SumSeq([k \in 1..(Len(rows) - old) |->
               IF rows[old + k].transaction_type = "redeemed" THEN rows[old + k].amount ELSE 0])

NoMethod == {"", "Gift Card + "}

CashMethods == {"Cash", "Gift Card + Cash"}

\* a loaded checkout request that a gift card of the customer covers in full
GiftCovers(s) ==
  /\ req[s].pc = "loaded"
  /\ req[s].total - DiscountAmount(session[s], req[s].total) > 0
  /\ db.gift_cards[1].balance >= req[s].total - DiscountAmount(session[s], req[s].total)

\* a request that has read a gift card covering its amount in full
GiftRead(s) ==
  /\ req[s].pc = "gift_read"
  /\ req[s].total > 0
  /\ req[s].gift_card.balance >= req[s].total

\* C14: an order whose final due (subtotal - discount - gift contribution) is
\* positive is created only with a payment method, and with payment proof
\* when the method is not cash; an order whose final due is 0 with a positive
\* gift contribution gets payment method 'Gift Card', and such a checkout goes
\* through without a payment method or proof on the form.
C14_PaymentRequiredForDue ==
  /\ [][OrderCreated =>
          LET order == db'.orders[Len(db'.orders)]
              final_due == order.total_amount - NewRedeemed
          IN /\ final_due > 0 =>
                  /\ order.payment_method \notin NoMethod
                  /\ order.payment_method \notin CashMethods => order.payment_proof
             /\ (final_due = 0 /\ NewRedeemed > 0) =>
                  /\ order.payment_method = "Gift Card"
                  /\ ~ order.payment_proof]_vars
  /\ [](\A s \in Sessions :
          GiftCovers(s) =>
            ENABLED (/\ CheckoutSubmit(s, GiftCardForm, FALSE)
                     /\ OrderCreated \/ req'[s].pc = "gift_read"))
  /\ [](\A s \in Sessions :
          GiftRead(s) => ENABLED (CheckoutCommit(s, FALSE) /\ OrderCreated))

\* a fully covered gift-card order exists and a later gift-card-only checkout
\* was turned down for the amount still due
C14_Witness ==
  /\ \E o \in OrderIds : db.orders[o].payment_method = "Gift Card" /\ ~ db.orders[o].payment_proof
  /\ session["s1"].flash = "Gift card balance is insufficient."

\* C15: a newly created order has payment_verified set if and only if its
\* remaining due is paid in cash or the order is covered in full by gift card.
C15_VerifiedOnlyCashOrGift ==
  [][OrderCreated =>
       LET order == db'.orders[Len(db'.orders)]
           final_due == order.total_amount - NewRedeemed
       IN order.payment_verified = 1 <=>
            \/ order.payment_method \in CashMethods
            \/ final_due = 0 /\ NewRedeemed > 0]_vars

\* the notifications recorded for order o
NoticesOf(d, o) == SelectSeq(d.notifications, LAMBDA n : n.order_id = o)

Notice(d, o) == [customer_id |-> d.orders[o].customer_id, order_id |-> o, status |-> d.orders[o].status]

\* C16: an operation that changes an order's status (its creation, a status
\* update to a different status) records exactly one notification carrying
\* the new status when the notification can be stored; a status update whose
\* target is the order's current status records none; so a step adds
\* notifications for an order only if it creates it or changes its status.
C16_NotifyOnChangeOnly ==
  [][/\ \A a \in Admins :
          LET o == adm[a].order_id
          IN /\ (StatusWrite(a, TRUE) /\ db'.orders[o].status # db.orders[o].status) =>
                  db'.notifications = Append(db.notifications, Notice(db', o))
             /\ (Writes(a) /\ db.orders[o].status = adm[a].new_status) =>
                  db'.notifications = db.notifications
     /\ \A s \in Sessions :
          (OrderCreated /\ \E form \in CartForms :
                             \/ CheckoutSubmit(s, form, TRUE)
                             \/ CheckoutCommit(s, TRUE)) =>
             db'.notifications = Append(db.notifications, Notice(db', Len(db'.orders)))
     /\ \A o \in 1..Len(db'.orders) :
          Len(NoticesOf(db', o)) > Len(NoticesOf(db, o)) =>
             /\ Len(NoticesOf(db', o)) = Len(NoticesOf(db, o)) + 1
             /\ o > Len(db.orders) \/ db'.orders[o].status # db.orders[o].status]_vars

\* admin worker a commits a status change in this step and the notification
\* for it fails
DispatchFails(a) ==
  /\ StatusWrite(a, FALSE)
  /\ adm[a].new_status # adm[a].current_order.status

\* session s gets its order placed in this step and the notification fails
PlacedUnnotified(s) ==
  /\ req[s].pc # "idle"
  /\ session'[s].flash = "Order placed successfully!"
  /\ db'.notifications = db.notifications

\* C17: a notification that fails to be stored or sent never undoes the
\* operation that triggered it: the new order with its items, or the new
\* status with the loyalty award and the cancellation count that go with it,
\* stay in the database.
C17_DispatchFailureKeepsCommit ==
  [][/\ \A a \in Admins :
          DispatchFails(a) =>
            LET o == adm[a].order_id
                ns == adm[a].new_status
                c == adm[a].current_order.customer_id
            IN /\ db'.orders[o].status = ns
               /\ db'.notifications = db.notifications
               /\ (ns = "completed" /\ EarnedRows(db, o) = {}) =>
                    /\ Cardinality(EarnedRows(db', o)) = 1
                    /\ PointsBalance(db', c) =
                         PointsBalance(db, c) + PointsEarned(db.orders[o].total_amount)
               /\ ns = "cancelled" =>
                    db'.customers[c].cancelled_count = db.customers[c].cancelled_count + 1
     /\ \A s \in Sessions :
          PlacedUnnotified(s) =>
            /\ OrderCreated
            /\ OrderLines(db', Len(db'.orders)) # <<>>
            /\ session'[s].cart = <<>>]_vars

\* an order that was placed and completed, points awarded, with every
\* notification for it lost
C17_Witness ==
  \E o \in OrderIds :
     /\ db.orders[o].status = "completed"
     /\ EarnedCount(o) = 1
     /\ NoticesOf(db, o) = <<>>

\* C18: an order item's unit price and the order's total_amount are fixed
\* when the order is created, from the catalog price the creating request
\* read; no later step, a price edit of the menu item included, changes the
\* price of an existing order item or the total_amount or discount_amount of
\* an existing order.
C18_PricesFrozenAtCreation ==
  [][/\ \A k \in 1..Len(db.order_items) : db'.order_items[k] = db.order_items[k]
     /\ \A o \in 1..Len(db.orders) :
          /\ db'.orders[o].total_amount = db.orders[o].total_amount
          /\ db'.orders[o].discount_amount = db.orders[o].discount_amount
     /\ \A s \in Sessions :
          (req[s].pc = "idle" /\ req'[s].pc = "loaded") =>
             \A k \in 1..Len(req'[s].cart_items) :
                req'[s].cart_items[k].price = db.menu_items[req'[s].cart_items[k].id].price
     /\ \A s \in Sessions :
          (OrderCreated /\ req[s].pc # "idle" /\ req'[s].pc = "idle") =>
             LET n == Len(db'.orders)
                 lines == OrderLines(db', n)
             IN /\ Len(lines) = Len(req[s].cart_items)
                /\ \A k \in 1..Len(lines) : lines[k].price = req[s].cart_items[k].price
                /\ db'.orders[n].total_amount + db'.orders[n].discount_amount
                     = OrderSubtotal(db', n)]_vars

\* an order item that kept its price after the menu item's price was changed
C18_Witness ==
  \E k \in 1..Len(db.order_items) :
     /\ db.order_items[k].menu_item_id \in DOMAIN db.menu_items
     /\ db.order_items[k].price # db.menu_items[db.order_items[k].menu_item_id].price
     /\ req["s1"].pc = "idle"

\* item i has a recipe entry whose ingredient is short of one unit's need
Unmakeable(d, i) ==
  \E k \in 1..Len(d.menu_item_ingredients) :
     /\ d.menu_item_ingredients[k].menu_item_id = i
     /\ d.ingredients[d.menu_item_ingredients[k].ingredient_id].current_stock
          < d.menu_item_ingredients[k].quantity_required

\* C19: the browsable menu lists no item that has a recipe entry whose
\* ingredient's current stock is below the quantity one unit requires.
C19_MenuHidesUnmakeable == \A i \in menu(db) : ~ Unmakeable(db, i)

\* the active blacklist rows that carry one of the identifiers supplied
ActiveMatches(blacklist, customer_id, email, phone) ==
  {k \in 1..Len(blacklist) :
     /\ blacklist[k].is_active = 1
     /\ blacklist[k].customer_id \in {customer_id} \ {0}
        \/ blacklist[k].email \in {email} \ {""}
        \/ blacklist[k].phone \in {phone} \ {""}}

\* C20: the blacklist check answers true exactly when some row with
\* is_active = 1 matches the supplied customer id, or the supplied email, or
\* the supplied phone; inactive rows never restrict and one matching
\* identifier is enough.  The checkout consults it with the customer's data.
C20_RestrictedIffActiveMatch ==
  /\ [](\A customer_id \in {0, 1, 2}, email \in Emails \cup {""}, phone \in Phones \cup {""} :
          check_blacklist(db.blacklist, customer_id, email, phone)
            <=> ActiveMatches(db.blacklist, customer_id, email, phone) # {})
  /\ [][\A s \in Sessions :
          (CheckoutBegin(s) /\ session[s].cart # <<>>) =>
             LET c == session[s].customer_id
             IN (session'[s].flash = "Your account has been restricted." /\ req'[s].pc = "idle")
                  <=> ActiveMatches(db.blacklist, c, db.customers[c].email,
                                    db.customers[c].phone) # {}]_vars

\* a checkout turned away on a phone number shared with another customer's
\* active row, the customer's own row being inactive
C20_Witness ==
  /\ session["s1"].flash = "Your account has been restricted."
  /\ \E k \in 1..Len(db.blacklist) :
        db.blacklist[k].customer_id = 1 /\ db.blacklist[k].is_active = 0
  /\ \E k \in 1..Len(db.blacklist) :
        /\ db.blacklist[k].customer_id = 2 /\ db.blacklist[k].is_active = 1
        /\ db.blacklist[k].email # db.customers[1].email
        /\ db.blacklist[k].phone = db.customers[1].phone

\* customer c has a blacklist row with is_active = 1
ActiveRowFor(d, c) ==
  \E k \in 1..Len(d.blacklist) : d.blacklist[k].customer_id = c /\ d.blacklist[k].is_active = 1

\* C21: when a cancellation brings a customer's cancellation count to 5, or
\* a no-show mark brings the no-show count to 3, while the customer has no
\* active blacklist row (an earlier row may have been deactivated), the
\* customer has an active blacklist row after the operation.
C21_ActiveRowAtThreshold ==
  [][\A c \in Customers :
       (/\ ~ ActiveRowFor(db, c)
        /\ \/ /\ db.customers[c].cancelled_count = CancelLimit - 1
              /\ db'.customers[c].cancelled_count = CancelLimit
           \/ /\ db.customers[c].no_show_count = NoShowLimit - 1
              /\ db'.customers[c].no_show_count = NoShowLimit)
         => ActiveRowFor(db', c)]_vars

\* the quantity of ingredient i that the inventory rows from position
\* `from` on take out of stock
UsageSince(d, from, i) ==
  SumSeq([k \in 1..(Len(d.inventory_transactions) - from) |->
            IF d.inventory_transactions[from + k].ingredient_id = i
              THEN d.inventory_transactions[from + k].quantity ELSE 0])

\* C22: ingredient stock is debited once per order, when the order is
\* created: the creating step appends the order's usage rows and takes
\* their quantities out of stock, and no other step (status update to any
\* status, verify-payment, no-show mark) changes a stock level or the
\* inventory ledger.
C22_StockDebitedOnlyAtCreation ==
  [][/\ ~ OrderCreated =>
          /\ db'.ingredients = db.ingredients
          /\ db'.inventory_transactions = db.inventory_transactions
     /\ OrderCreated =>
          LET old == Len(db.inventory_transactions)
              rows == db'.inventory_transactions
          IN /\ SubSeq(rows, 1, old) = db.inventory_transactions
             /\ \A k \in (old + 1)..Len(rows) :
                   /\ rows[k].order_id = Len(db'.orders)
                   /\ rows[k].transaction_type = "usage"
             /\ \A i \in DOMAIN db.ingredients :
                   db'.ingredients[i].current_stock =
                     db.ingredients[i].current_stock - UsageSince(db', old, i)]_vars

\* a cancelled order whose ingredients are still out of stock
C22_Witness ==
  \E o \in OrderIds :
     /\ db.orders[o].status = "cancelled"
     /\ db.customers[db.orders[o].customer_id].cancelled_count = 1
     /\ db.ingredients[1].current_stock = 0
     /\ \E k \in 1..Len(db.inventory_transactions) : db.inventory_transactions[k].order_id = o

\* C23: every gift card keeps 0 <= balance <= amount.
C23_GiftBalanceWithinAmount ==
  \A g \in DOMAIN db.gift_cards :
     /\ 0 <= db.gift_cards[g].balance
     /\ db.gift_cards[g].balance <= db.gift_cards[g].amount

\* C24: a promotion with a usage cap never has used_count above max_uses,
\* and used_count goes up by exactly 1 with each created order that carries
\* the code and stays as it is otherwise.
C24_PromoUsageWithinCap ==
  /\ [](\A k \in 1..Len(db.promotions) :
          db.promotions[k].max_uses # 0 => db.promotions[k].used_count <= db.promotions[k].max_uses)
  /\ [][\A k \in 1..Len(db.promotions) :
          db'.promotions[k].used_count =
            db.promotions[k].used_count
              + (IF OrderCreated /\ db'.orders[Len(db'.orders)].promo_code = db.promotions[k].code
                   THEN 1 ELSE 0)]_vars

\* the points of customer c's 'earned' loyalty transactions
EarnedPoints(d, c) ==
  SumSeq([k \in 1..Len(d.loyalty_transactions) |->
            IF /\ d.loyalty_transactions[k].customer_id = c
               /\ d.loyalty_transactions[k].transaction_type = "earned"
              THEN d.loyalty_transactions[k].points ELSE 0])

\* C25: each customer's points balance equals total_earned - total_redeemed,
\* equals the sum of the points of the customer's 'earned' transactions (no
\* redemption exists), and is never negative; each earned transaction's
\* points are floor(total_amount) of its order.
C25_PointsLedgerConsistent ==
  /\ \A k \in 1..Len(db.loyalty_points) :
        LET lp == db.loyalty_points[k]
        IN /\ lp.points = lp.total_earned - lp.total_redeemed
           /\ lp.points = EarnedPoints(db, lp.customer_id)
           /\ lp.points >= 0
  /\ \A k \in 1..Len(db.loyalty_transactions) :
        LET t == db.loyalty_transactions[k]
        IN t.transaction_type = "earned" =>
             t.points = db.orders[t.order_id].total_amount \div 100

\* C26: an order that is completed, or that has an 'earned' loyalty
\* transaction, is paid in cash, covered in full by gift card, or has its
\* payment verified.
C26_CompletedOnlyIfPaid ==
  \A o \in OrderIds :
     (db.orders[o].status = "completed" \/ EarnedRows(db, o) # {}) =>
        \/ db.orders[o].payment_method \in CashMethods \cup {"Gift Card"}
        \/ db.orders[o].payment_verified = 1

\* the orders of customer c
OrdersOf(d, c) == {o \in 1..Len(d.orders) : d.orders[o].customer_id = c}

\* C27: each order adds at most 1 to its customer's cancellation count, so
\* the count never exceeds the number of the customer's orders that have
\* been cancelled, which is at most the number of the customer's orders.
C27_CancelCountedOncePerOrder ==
  \A c \in Customers : db.customers[c].cancelled_count <= Cardinality(OrdersOf(db, c))

\* C28: each order adds at most 1 to its customer's no-show count, so the
\* count never exceeds the number of the customer's orders marked as
\* no-show, which is at most the number of the customer's orders.
C28_NoShowCountedOncePerOrder ==
  \A c \in Customers : db.customers[c].no_show_count <= Cardinality(OrdersOf(db, c))

\* C29: every cart entry has quantity >= 1 and no menu item appears twice in
\* a cart; so every order item has quantity >= 1 and creating an order never
\* raises an ingredient's stock or a gift card's balance.
C29_CartQuantitiesPositive ==
  /\ [](\A s \in Sessions :
          LET cart == session[s].cart
          IN /\ \A k \in 1..Len(cart) : cart[k].quantity >= 1
             /\ \A j, k \in 1..Len(cart) : cart[j].id = cart[k].id => j = k)
  /\ [](\A k \in 1..Len(db.order_items) : db.order_items[k].quantity >= 1)
  /\ [][OrderCreated =>
          /\ \A i \in DOMAIN db.ingredients :
                db'.ingredients[i].current_stock <= db.ingredients[i].current_stock
          /\ \A g \in DOMAIN db.gift_cards :
                db'.gift_cards[g].balance <= db.gift_cards[g].balance]_vars

\* C30: no order is created with an item whose availability flag is 0 when
\* the order is inserted.
C30_NoSoldOutItemOrdered ==
  [][OrderCreated =>
       LET lines == OrderLines(db', Len(db'.orders))
       IN \A k \in 1..Len(lines) :
            /\ lines[k].menu_item_id \in DOMAIN db.menu_items
            /\ db.menu_items[lines[k].menu_item_id].is_available # 0]_vars

====
